---- MODULE Spec2Model ----
(***************************************************************************)
(* A model of bayes-bridge's two numerical primitives:                     *)
(*   - bayesbridge/model/cox_model.py: CoxModel and its nested             *)
(*     _HazardMultinomialProbMatrix;                                       *)
(*   - tilted_stable_dist/rand_exp_tilted_stable.py: ExpTiltedStableDist.  *)
(*                                                                         *)
(* Arrays are functions over 0..n-1, as numpy indexes them.  float('inf')  *)
(* is the top element Inf of the time scale.  Real quantities of the form  *)
(* x / sum_over_risk_set[k] are carried exactly, as the integer x * Scale  *)
(* / sum_over_risk_set[k], where Scale is the product of all entries of    *)
(* sum_over_risk_set (every result of the hazard matrix is linear in the   *)
(* reciprocals, so the common factor changes no equality).                 *)
(***************************************************************************)
EXTENDS Integers, Sequences, FiniteSets, TLC

\* ------------------------------------------------------------------ bounds
MaxN == 3        \* largest number of individuals
MaxTime == 3     \* finite times are 1..MaxTime
MaxHaz == 2      \* hazard increases are 1..MaxHaz
MaxV == 1        \* entries of the vectors given to dot / Tdot are -MaxV..MaxV

Inf == MaxTime + 1
Times == 1..Inf

VARIABLES
    \* --- CoxModel
    event_time, censoring_time,   \* the observation arrays handed to the class
    permuted,                     \* permute_observations_... has returned
    cox_pc,                       \* "new" | "constructed" | "ready" | "raised"
    cox_err,                      \* which error was raised, "" if none
    n_event, n_appearance_in_risk_set, risk_set_end_index,   \* self.* of CoxModel
    hazard_increase, sum_over_risk_set,                      \* self.* of the matrix
    last_op, last_arg, last_val,  \* the last call made and what it returned
    last_raised,                  \* the error the last call raised, "" if none
    \* --- ExpTiltedStableDist.rv, one instance
    alpha2, lam,                  \* the arguments of the call: 2 * alpha, and lam
    rv_pc,                        \* "idle" | "loop" | "returned" | "raised"
    rv_err,                       \* the exception rv raised, "" if none
    accepted, aug_accepted,       \* the two loop flags
    U, Z, X,                      \* the region of the real line U, Z and X lie in
    c_bound,                      \* c and E2 have been assigned in this call
    stale_used,                   \* the acceptance test read c, E2 of an earlier X
    pair_uses,                    \* candidates X drawn with the current (U, Z)
    \* --- numpy's process-wide generator
    np_random,                    \* its state: the seed last set, draws made since
    isolated,                     \* the state it would have had the instance alone used it
    unperturbed                   \* every draw of the instance so far read the
                                  \* state it would have read in isolation

cox_vars == <<event_time, censoring_time, permuted, cox_pc, cox_err, n_event,
              n_appearance_in_risk_set, risk_set_end_index, hazard_increase,
              sum_over_risk_set, last_op, last_arg, last_val, last_raised>>

\* ------------------------------------------------------------ numpy helpers
Len0(a) == Cardinality(DOMAIN a)

EmptyArr == [i \in {} |-> 0]

RECURSIVE SumTo(_, _, _)
\* sum of a[i] for lo <= i <= hi (0 when the range is empty)
SumTo(a, lo, hi) == IF hi < lo THEN 0 ELSE a[hi] + SumTo(a, lo, hi - 1)

\* a[start:] for start >= 0 and a[:stop] for stop >= 0, re-indexed from 0
SliceFrom(a, start) ==
    LET n == Len0(a)
        s == IF start > n THEN n ELSE start
    IN  [i \in 0..(n - s - 1) |-> a[i + s]]

SliceTo(a, stop) ==
    LET n == Len0(a)
        e == IF stop > n THEN n ELSE stop
    IN  [i \in 0..(e - 1) |-> a[i]]

np_cumsum(a) == [i \in DOMAIN a |-> SumTo(a, 0, i)]

np_reverse_cumsum(a) == [i \in DOMAIN a |-> SumTo(a, i, Len0(a) - 1)]

Concat0(a, b) ==
    [i \in 0..(Len0(a) + Len0(b) - 1) |->
        IF i < Len0(a) THEN a[i] ELSE b[i - Len0(a)]]

\* numpy's a[i] for one integer index: negative indices count from the end,
\* anything outside -len..len-1 is an IndexError
IndexOk(a, i) == -Len0(a) <= i /\ i < Len0(a)
PyIndex(a, i) == IF i < 0 THEN a[i + Len0(a)] ELSE a[i]

\* np.argsort: positions 0..n-1 listed by increasing value; equal values keep
\* their index order (numpy sorts arrays this short by insertion)
Argsorted(a) ==
    LET n == Len0(a)
        Before(i, j) == a[i] < a[j] \/ (a[i] = a[j] /\ i < j)
        Rank(i) == Cardinality({j \in DOMAIN a : Before(j, i)})
    IN  [p \in 0..(n - 1) |-> CHOOSE i \in DOMAIN a : Rank(i) = p]

\* (the argument is bound once, so that a nested call is evaluated once)
np_argsort(arr) == CHOOSE r \in {Argsorted(a) : a \in {arr}} : TRUE

np_rank_by_value(a) ==
    LET sort_arguments == np_argsort(a)
    IN  np_argsort(sort_arguments)

\* ----------------------------------------------------------------- CoxModel
event_time_unsorted(et) ==
    \E i \in DOMAIN et : (i + 1) \in DOMAIN et /\ et[i] > et[i + 1]

\* the check of line 27 with the comparison turned round
censoring_time_unsorted_reversed(ct) ==
    \E i \in DOMAIN ct : (i + 1) \in DOMAIN ct /\ ct[i] > ct[i + 1]

censoring_time_unsorted(ct) ==
    \E i \in DOMAIN ct : (i + 1) \in DOMAIN ct /\ ct[i] < ct[i + 1]

count_risk_set_appearance(et, ct) ==
    [i \in DOMAIN ct |->
        Cardinality({j \in DOMAIN et :
            et[j] < Inf /\ ct[i] >= et[j] /\ et[i] >= et[j]})]

count_n_event(et) == Len0(et) - Cardinality({i \in DOMAIN et : et[i] = Inf})

compute_risk_set_end_index(et, ct) ==
    LET ne == count_n_event(et)
    IN  [k \in 0..(ne - 1) |->
            Cardinality({i \in DOMAIN ct : et[k] < ct[i]}) - 1]

censoring_indicators_inconsistent(et, ct) ==
    \E i \in DOMAIN et : (et[i] = Inf) # (ct[i] < Inf)

\* sort_ind of permute_observations_by_event_and_censoring_time; each local
\* array of the code is bound once, in the order the code assigns it
sort_ind(et, ct) ==
    LET ne == Cardinality({i \in DOMAIN et : et[i] < Inf})
    IN  CHOOSE ind \in
            {Concat0(SliceTo(by_event, ne), SliceFrom(by_censoring, ne)) :
                by_event \in {np_argsort(event_rank) :
                    event_rank \in {np_rank_by_value(et)}},
                by_censoring \in
                    {np_argsort([i \in DOMAIN censoring_rank |->
                                    0 - censoring_rank[i]]) :
                        censoring_rank \in {np_rank_by_value(ct)}}} : TRUE

\* _sum_over_risk_set(arr, risk_set_end_index): the index vector used on the
\* forward cumulative sum, and the result when every index is in range
right_index(end) == [k \in DOMAIN end |-> end[k] - Len0(end) + 1]

sum_over_risk_set_raises(arr, end) ==
    LET ne == Len0(end)
        right == np_cumsum(SliceFrom(arr, ne - 1))
    IN  \E k \in DOMAIN end : ~IndexOk(right, right_index(end)[k])

sum_over_risk_set_of(arr, end) ==
    LET ne == Len0(end)
        right == np_cumsum(SliceFrom(arr, ne - 1))
        sum_from_right_over_risk_set ==
            [k \in DOMAIN end |-> PyIndex(right, right_index(end)[k])]
        sum_from_left_over_risk_set ==
            Concat0(np_reverse_cumsum(SliceTo(arr, ne - 1)), [i \in {0} |-> 0])
    IN  [k \in DOMAIN end |->
            sum_from_right_over_risk_set[k] + sum_from_left_over_risk_set[k]]

\* ------------------------------------------- _HazardMultinomialProbMatrix
RECURSIVE ProdTo(_, _)
ProdTo(a, hi) == IF hi < 0 THEN 1 ELSE a[hi] * ProdTo(a, hi - 1)

Scale == ProdTo(sum_over_risk_set, Len0(sum_over_risk_set) - 1)

\* self.sum_over_risk_set ** -1, times Scale
inv_sum_over_risk_set ==
    [k \in DOMAIN sum_over_risk_set |-> Scale \div sum_over_risk_set[k]]

sum_over_events_of ==
    LET n == Len0(hazard_increase)
        normalizer_cumsum == np_cumsum(inv_sum_over_risk_set)
        row_sum == [i \in DOMAIN hazard_increase |->
            PyIndex(normalizer_cumsum, n_appearance_in_risk_set[i] - 1)
                * hazard_increase[i]]
    IN  IF (risk_set_end_index[0] + 1) < n
        THEN [i \in DOMAIN hazard_increase |->
                IF i >= risk_set_end_index[0] + 1 THEN 0 ELSE row_sum[i]]
        ELSE row_sum

dot_of(v) ==
    LET hv == [i \in DOMAIN hazard_increase |-> hazard_increase[i] * v[i]]
        s == sum_over_risk_set_of(hv, risk_set_end_index)
    IN  [k \in DOMAIN sum_over_risk_set |-> inv_sum_over_risk_set[k] * s[k]]

Tdot_of(v) ==
    LET iv == [k \in DOMAIN sum_over_risk_set |-> inv_sum_over_risk_set[k] * v[k]]
        partial_inner_prod == np_cumsum(iv)
    IN  [i \in DOMAIN hazard_increase |->
            hazard_increase[i]
                * PyIndex(partial_inner_prod, n_appearance_in_risk_set[i] - 1)]

compute_matrix_of ==
    LET n == Len0(hazard_increase)
        ne == Len0(sum_over_risk_set)
        outer == [k \in 0..(ne - 1) |-> [i \in 0..(n - 1) |->
                    inv_sum_over_risk_set[k] * hazard_increase[i]]]
        triu == [k \in 0..(ne - 1) |-> [i \in 0..(n - 1) |->
                    IF i >= k THEN outer[k][i] ELSE 0]]
        \* the loop runs i = 1, 2, ... over rows -i and stops at the first row
        \* whose risk set reaches the last individual
        Stops(i) == (risk_set_end_index[ne - i] + 1) >= n
        Zeroed(k) == \A i \in 1..(ne - k) : ~Stops(i)
    IN  [k \in 0..(ne - 1) |-> [i \in 0..(n - 1) |->
            IF Zeroed(k) /\ i >= risk_set_end_index[k] + 1
            THEN 0 ELSE triu[k][i]]]

\* ------------------------------------------------------ ExpTiltedStableDist
\* Real arithmetic is not computed.  The constants of rv are carried exactly on
\* sample arguments (alpha in halves, lam with an integer square root), which
\* decides every branch and every exception of lines 25-36.  Inside the loops
\* each real quantity is known by the region of the line it lies in, and a
\* draw of the generator is a choice over the regions it can produce:
\* uniform() returns a float in [0, 1), 0.0 included.
MaxDraws == 7     \* draws the instance makes in one behaviour
MaxSimN == 2      \* rows of X given to simulate_outcome

Alpha2s == {-2, 0, 1, 2, 4, 6}
Lams == {-1, 0, 1, 16}
Seeds == {1, 2}

rv_vars == <<alpha2, lam, rv_pc, rv_err, accepted, aug_accepted, U, Z, X, c_bound,
             stale_used, pair_uses, np_random, isolated, unperturbed>>

RECURSIVE IPow(_, _)
IPow(base, k) == IF k = 0 THEN 1 ELSE base * IPow(base, k - 1)

\* lam ** alpha as Python computes it on floats: a real num / den, a complex
\* number (negative base, fractional exponent), or ZeroDivisionError
\* (zero to a negative power)
lam_pow_alpha(l, a2) ==
    IF a2 % 2 = 0
    THEN LET k == a2 \div 2
         IN  IF k >= 0
             THEN [kind |-> "real", num |-> IPow(l, k), den |-> 1]
             ELSE IF l = 0
             THEN [kind |-> "ZeroDivisionError", num |-> 0, den |-> 1]
             ELSE LET d == IPow(l, 0 - k)
                  IN  IF d > 0
                      THEN [kind |-> "real", num |-> 1, den |-> d]
                      ELSE [kind |-> "real", num |-> 0 - 1, den |-> 0 - d]
    ELSE IF l < 0
         THEN [kind |-> "complex", num |-> 0, den |-> 1]
         ELSE LET r == CHOOSE x \in 0..l : x * x = l
              IN  [kind |-> "real", num |-> IPow(r, a2), den |-> 1]

\* 4 * den * gamma, for gamma = lam_alpha * alpha * (1 - alpha)
gamma_num(l, a2) == lam_pow_alpha(l, a2).num * a2 * (2 - a2)

gamma_ge_1(l, a2) == gamma_num(l, a2) >= 4 * lam_pow_alpha(l, a2).den

\* the exception lines 25-36 raise, "" if none
constants_error(l, a2) ==
    IF a2 = 0 THEN "ZeroDivisionError"                              \* b
    ELSE IF lam_pow_alpha(l, a2).kind = "ZeroDivisionError"
    THEN "ZeroDivisionError"                                        \* lam_alpha
    ELSE IF lam_pow_alpha(l, a2).kind = "complex" THEN "TypeError"  \* sqrt(gamma)
    ELSE IF gamma_num(l, a2) < 0 THEN "ValueError"                  \* sqrt(gamma)
    ELSE IF gamma_num(l, a2) = 0 THEN "ZeroDivisionError"           \* w1
    ELSE ""

in_domain(l, a2) == 0 < a2 /\ a2 < 2 /\ l >= 0

URegions == {"zero", "interior", "pi", "pi_to_2pi", "ge_2pi"}
ZRegions == {"zero", "le_1", "gt_1"}
XRegions == {"neg", "zero", "pos"}

\* the regions the candidate U can fall in, by the branch lines 44-55 take
U_candidates ==
    IF gamma_ge_1(lam, alpha2)
    THEN URegions                                  \* |normal| / sqrt_gamma, or
                                                   \* pi * (1 - W1 * W1)
    ELSE {"zero", "interior", "pi"}                \* pi * W1, or pi * (1 - W1 * W1)

RvInit ==
    /\ alpha2 = 1
    /\ lam = 1
    /\ rv_pc = "idle"
    /\ rv_err = ""
    /\ accepted = FALSE
    /\ aug_accepted = FALSE
    /\ U = "unset"
    /\ Z = "unset"
    /\ X = "unset"
    /\ c_bound = FALSE
    /\ stale_used = FALSE
    /\ pair_uses = 0
    /\ \E s \in Seeds : np_random = [seed |-> s, pos |-> 0]
    /\ isolated = np_random
    /\ unperturbed = TRUE

RvRaise(err) ==
    /\ rv_pc' = "raised"
    /\ rv_err' = err

\* the instance reads k values of the process-wide generator
Draws(k) ==
    /\ isolated.pos + k <= MaxDraws
    /\ unperturbed' = (unperturbed /\ np_random = isolated)
    /\ np_random' = [np_random EXCEPT !.pos = @ + k]
    /\ isolated' = [isolated EXCEPT !.pos = @ + k]

\* lines 25-39: the constants, and the two flags
rv_begin ==
    /\ UNCHANGED cox_vars
    /\ rv_pc \in {"idle", "returned", "raised"}
    /\ \E a2 \in Alpha2s, l \in Lams :
         /\ alpha2' = a2
         /\ lam' = l
         /\ IF constants_error(l, a2) # ""
            THEN RvRaise(constants_error(l, a2))
            ELSE /\ rv_pc' = "loop"
                 /\ rv_err' = ""
    /\ accepted' = FALSE
    /\ aug_accepted' = FALSE
    /\ c_bound' = FALSE
    /\ stale_used' = FALSE
    /\ pair_uses' = 0
    /\ U' = "unset"
    /\ Z' = "unset"
    /\ X' = "unset"
    /\ UNCHANGED <<np_random, isolated, unperturbed>>

\* lines 42-70: one pass of the inner loop (V1, then a normal or W1, then W2)
inner_iteration ==
    /\ UNCHANGED cox_vars
    /\ rv_pc = "loop"
    /\ ~accepted
    /\ ~aug_accepted
    /\ Draws(3)
    /\ IF in_domain(lam, alpha2)
       THEN \E u \in U_candidates, W2 \in {"zero", "pos"} :
              /\ U' = u
              /\ IF u = "pi_to_2pi"
                 THEN \* sinc(U) < 0: BdB0 is negative or raises a negative
                      \* number to a fractional power (line 57)
                      /\ RvRaise("ValueError")
                      /\ UNCHANGED <<Z, aug_accepted, pair_uses>>
                 ELSE IF u = "ge_2pi"
                 THEN \* line 57 raises or not; U < pi fails
                      /\ \/ RvRaise("ValueError")
                         \/ UNCHANGED <<rv_pc, rv_err>>
                      /\ UNCHANGED <<Z, aug_accepted, pair_uses>>
                 ELSE IF u = "pi"
                 THEN /\ Z' = "gt_1"
                      /\ UNCHANGED <<rv_pc, rv_err, aug_accepted, pair_uses>>
                 ELSE /\ Z' \in (IF W2 = "zero" THEN {"zero"} ELSE {"le_1", "gt_1"})
                      /\ aug_accepted' = (Z' # "gt_1")
                      /\ pair_uses' = 0
                      /\ UNCHANGED <<rv_pc, rv_err>>
       ELSE \* outside the domain nothing is known of the quantities computed
            /\ U' \in URegions
            /\ Z' \in ZRegions
            /\ pair_uses' = 0
            /\ \/ /\ RvRaise("ValueError")
                  /\ UNCHANGED aug_accepted
               \/ /\ aug_accepted' \in BOOLEAN
                  /\ UNCHANGED <<rv_pc, rv_err>>
    /\ UNCHANGED <<alpha2, lam, accepted, X, c_bound, stale_used>>

\* lines 72-98: the candidate X (V2, then a normal or a uniform) and the outer
\* acceptance test
outer_body ==
    /\ UNCHANGED cox_vars
    /\ rv_pc = "loop"
    /\ ~accepted
    /\ aug_accepted
    /\ Draws(2)
    /\ pair_uses' = pair_uses + 1
    /\ IF in_domain(lam, alpha2)
       THEN \E piece \in {"normal", "uniform", "exponential"},
               u \in {"zero", "pos"}, x \in XRegions :
              /\ (piece # "normal") => (x = "pos")
              /\ (piece # "exponential") => (u = "pos")
              /\ IF piece = "exponential" /\ u = "zero"
                 THEN \* E1 = -log(0.0), line 88
                      /\ RvRaise("ValueError")
                      /\ UNCHANGED <<X, accepted, c_bound, stale_used>>
                 ELSE /\ X' = x
                      /\ IF x = "pos"
                         THEN IF Z = "zero"
                              THEN \* E2 = -log(0.0), line 91
                                   /\ RvRaise("ValueError")
                                   /\ UNCHANGED <<accepted, c_bound, stale_used>>
                              ELSE /\ c_bound' = TRUE
                                   /\ accepted' \in BOOLEAN
                                   /\ UNCHANGED <<rv_pc, rv_err, stale_used>>
                         ELSE IF x = "neg"
                         THEN /\ accepted' = FALSE
                              /\ UNCHANGED <<rv_pc, rv_err, c_bound, stale_used>>
                         ELSE \* X = 0: "X >= 0" holds and line 98 reads c and E2
                              IF c_bound
                              THEN /\ accepted' \in BOOLEAN
                                   /\ stale_used' = TRUE
                                   /\ UNCHANGED <<rv_pc, rv_err, c_bound>>
                              ELSE /\ RvRaise("UnboundLocalError")
                                   /\ UNCHANGED <<accepted, c_bound, stale_used>>
       ELSE /\ X' \in XRegions
            /\ \/ /\ RvRaise("ValueError")
                  /\ UNCHANGED <<accepted, c_bound, stale_used>>
               \/ /\ accepted' \in BOOLEAN
                  /\ c_bound' = TRUE
                  /\ UNCHANGED <<rv_pc, rv_err, stale_used>>
    /\ UNCHANGED <<alpha2, lam, aug_accepted, U, Z>>

\* line 100: pow(X, -b)
rv_return ==
    /\ UNCHANGED cox_vars
    /\ rv_pc = "loop"
    /\ accepted
    /\ IF X = "zero" \/ ~in_domain(lam, alpha2)
       THEN \/ RvRaise("ValueError")
            \/ /\ X # "zero"
               /\ rv_pc' = "returned"
               /\ UNCHANGED rv_err
       ELSE /\ rv_pc' = "returned"
            /\ UNCHANGED rv_err
    /\ UNCHANGED <<alpha2, lam, accepted, aug_accepted, U, Z, X, c_bound,
                   stale_used, pair_uses, np_random, isolated, unperturbed>>

BetweenCalls == rv_pc \in {"idle", "returned", "raised"}

\* ExpTiltedStableDist(seed) for another instance: np.random.seed(seed);
\* seed=None reseeds from the operating system, to any state
ExpTiltedStableDist_init ==
    /\ UNCHANGED cox_vars
    /\ BetweenCalls
    /\ \E s \in Seeds : np_random' = [seed |-> s, pos |-> 0]
    /\ UNCHANGED <<alpha2, lam, rv_pc, rv_err, accepted, aug_accepted, U, Z, X,
                   c_bound, stale_used, pair_uses, isolated, unperturbed>>

\* CoxModel.simulate_outcome(X, beta, censoring_frac, seed): seeds the
\* generator unless seed is None (written 0 here), then draws an event time
\* and a censoring time per row of X
simulate_outcome ==
    /\ UNCHANGED cox_vars
    /\ BetweenCalls
    /\ \E seed \in Seeds \cup {0}, n \in 1..MaxSimN :
         LET start == IF seed = 0 THEN np_random ELSE [seed |-> seed, pos |-> 0]
         IN  /\ start.pos + 2 * n <= MaxDraws
             /\ np_random' = [start EXCEPT !.pos = @ + 2 * n]
    /\ UNCHANGED <<alpha2, lam, rv_pc, rv_err, accepted, aug_accepted, U, Z, X,
                   c_bound, stale_used, pair_uses, isolated, unperturbed>>

RvNext ==
    \/ rv_begin
    \/ inner_iteration
    \/ outer_body
    \/ rv_return
    \/ ExpTiltedStableDist_init
    \/ simulate_outcome

\* --------------------------------------------------------- CoxModel actions
Raise(err) ==
    /\ cox_pc' = "raised"
    /\ cox_err' = err

CoxInit ==
    /\ \E n \in 1..MaxN :
         /\ event_time \in [0..(n - 1) -> Times]
         /\ censoring_time \in [0..(n - 1) -> Times]
    /\ permuted = FALSE
    /\ cox_pc = "new"
    /\ cox_err = ""
    /\ n_event = 0
    /\ n_appearance_in_risk_set = EmptyArr
    /\ risk_set_end_index = EmptyArr
    /\ hazard_increase = EmptyArr
    /\ sum_over_risk_set = EmptyArr
    /\ last_op = ""
    /\ last_arg = EmptyArr
    /\ last_val = EmptyArr
    /\ last_raised = ""

permute_observations_by_event_and_censoring_time ==
    /\ UNCHANGED rv_vars
    /\ cox_pc = "new"
    /\ ~permuted
    /\ IF censoring_indicators_inconsistent(event_time, censoring_time)
       THEN /\ Raise("inconsistent_censoring_indicators")
            /\ UNCHANGED <<event_time, censoring_time, permuted>>
       ELSE \E ind \in {sort_ind(event_time, censoring_time)} :
              IF Cardinality({ind[i] : i \in DOMAIN ind}) # Len0(ind)
              THEN \* the assert of line 79
                   /\ Raise("AssertionError")
                   /\ UNCHANGED <<event_time, censoring_time, permuted>>
              ELSE /\ event_time' = [i \in DOMAIN ind |-> event_time[ind[i]]]
                   /\ censoring_time' = [i \in DOMAIN ind |-> censoring_time[ind[i]]]
                   /\ permuted' = TRUE
                   /\ UNCHANGED <<cox_pc, cox_err>>
    /\ UNCHANGED <<n_event, n_appearance_in_risk_set, risk_set_end_index,
                   hazard_increase, sum_over_risk_set, last_op, last_arg, last_val,
                   last_raised>>

CoxModel_init ==
    /\ UNCHANGED rv_vars
    /\ cox_pc = "new"
    /\ LET n_appearance == count_risk_set_appearance(event_time, censoring_time)
       IN  IF event_time_unsorted(event_time)
           THEN /\ Raise("event_time_unsorted")
                /\ UNCHANGED <<n_event, n_appearance_in_risk_set, risk_set_end_index>>
           ELSE IF censoring_time_unsorted(censoring_time)
           THEN /\ Raise("censoring_time_unsorted")
                /\ UNCHANGED <<n_event, n_appearance_in_risk_set, risk_set_end_index>>
           ELSE IF ~(\A i \in DOMAIN n_appearance : n_appearance[i] >= 1)
           THEN /\ Raise("never_in_risk_set")
                /\ UNCHANGED <<n_event, n_appearance_in_risk_set, risk_set_end_index>>
           ELSE /\ n_event' = count_n_event(event_time)
                /\ n_appearance_in_risk_set' = n_appearance
                /\ risk_set_end_index' =
                       compute_risk_set_end_index(event_time, censoring_time)
                /\ cox_pc' = "constructed"
                /\ UNCHANGED cox_err
    /\ UNCHANGED <<event_time, censoring_time, permuted, hazard_increase,
                   sum_over_risk_set, last_op, last_arg, last_val, last_raised>>

\* A direct call of the static method on the constructed model's index vector.
\* The calls below are read-only: each returns a function of the object's
\* fields and changes none of them, so a behaviour records one call and its
\* result, and the set of behaviours covers every call on every object.
sum_over_risk_set_call ==
    /\ UNCHANGED rv_vars
    /\ cox_pc = "constructed"
    /\ last_op = ""
    /\ \E arr \in [DOMAIN event_time -> (0 - MaxHaz)..MaxHaz] :
         /\ last_op' = "_sum_over_risk_set"
         /\ last_arg' = arr
         /\ IF sum_over_risk_set_raises(arr, risk_set_end_index)
            THEN /\ last_raised' = "IndexError"
                 /\ last_val' = EmptyArr
            ELSE /\ last_raised' = ""
                 /\ last_val' = sum_over_risk_set_of(arr, risk_set_end_index)
    /\ UNCHANGED <<event_time, censoring_time, permuted, cox_pc, cox_err, n_event,
                   n_appearance_in_risk_set, risk_set_end_index, hazard_increase,
                   sum_over_risk_set>>

\* _compute_hazard_increase followed by the construction of the matrix object
compute_hazard_increase ==
    /\ UNCHANGED rv_vars
    /\ cox_pc = "constructed"
    /\ last_op = ""
    /\ \E h \in [DOMAIN event_time -> 1..MaxHaz] :
         IF sum_over_risk_set_raises(h, risk_set_end_index)
         THEN /\ Raise("IndexError")
              /\ UNCHANGED <<hazard_increase, sum_over_risk_set>>
         ELSE /\ hazard_increase' = h
              /\ sum_over_risk_set' = sum_over_risk_set_of(h, risk_set_end_index)
              /\ cox_pc' = "ready"
              /\ UNCHANGED cox_err
    /\ UNCHANGED <<event_time, censoring_time, permuted, n_event,
                   n_appearance_in_risk_set, risk_set_end_index,
                   last_op, last_arg, last_val, last_raised>>

MatrixCall(op, arg, val) ==
    /\ UNCHANGED rv_vars
    /\ cox_pc = "ready"
    /\ last_op = ""
    /\ last_op' = op
    /\ last_arg' = arg
    /\ last_val' = val
    /\ last_raised' = ""
    /\ UNCHANGED <<event_time, censoring_time, permuted, cox_pc, cox_err, n_event,
                   n_appearance_in_risk_set, risk_set_end_index, hazard_increase,
                   sum_over_risk_set>>

sum_over_events == MatrixCall("sum_over_events", EmptyArr, sum_over_events_of)

dot == \E v \in [DOMAIN hazard_increase -> (0 - MaxV)..MaxV] :
          MatrixCall("dot", v, dot_of(v))

Tdot == \E v \in [DOMAIN sum_over_risk_set -> (0 - MaxV)..MaxV] :
          MatrixCall("Tdot", v, Tdot_of(v))

compute_matrix == MatrixCall("compute_matrix", EmptyArr, compute_matrix_of)

CoxNext ==
    \/ permute_observations_by_event_and_censoring_time
    \/ CoxModel_init
    \/ sum_over_risk_set_call
    \/ compute_hazard_increase
    \/ sum_over_events
    \/ dot
    \/ Tdot
    \/ compute_matrix

\* The constructor and the permutation helper alone
ConstructNext ==
    \/ permute_observations_by_event_and_censoring_time
    \/ CoxModel_init

\* no CoxModel in the behaviours of the sampler
CoxUnused ==
    /\ event_time = EmptyArr
    /\ censoring_time = EmptyArr
    /\ permuted = FALSE
    /\ cox_pc = "unused"
    /\ cox_err = ""
    /\ n_event = 0
    /\ n_appearance_in_risk_set = EmptyArr
    /\ risk_set_end_index = EmptyArr
    /\ hazard_increase = EmptyArr
    /\ sum_over_risk_set = EmptyArr
    /\ last_op = ""
    /\ last_arg = EmptyArr
    /\ last_val = EmptyArr
    /\ last_raised = ""

vars == <<cox_vars, rv_vars>>

\* CoxModel and its hazard matrix
Init == CoxInit /\ RvInit
Next == CoxNext
Spec == Init /\ [][Next]_vars

SpecConstruct == Init /\ [][ConstructNext]_vars

\* ExpTiltedStableDist and the generator it shares
InitRv == CoxUnused /\ RvInit
NextRv == RvNext
SpecRv == InitRv /\ [][NextRv]_vars

\* ===================================================================== claims
Constructed == cox_pc \in {"constructed", "ready"}

\* column i of the dense matrix, summed over the events
ColumnSum(M, i) == SumTo([k \in DOMAIN M |-> M[k][i]], 0, Len0(M) - 1)

\* (M v)[k] and (M^T w)[i] computed entry by entry from the dense matrix
MatVec(M, v, k) == SumTo([i \in DOMAIN v |-> M[k][i] * v[i]], 0, Len0(v) - 1)
MatTVec(M, w, i) == SumTo([k \in DOMAIN w |-> M[k][i] * w[k]], 0, Len0(w) - 1)

ExactlyOneFinite(i) == (event_time[i] < Inf) # (censoring_time[i] < Inf)

\* the observation sets of the data model: one finite time per individual
ConsistentIndicators == \A i \in DOMAIN event_time : ExactlyOneFinite(i)

\* C1: sum_over_events() returns, for each individual i, the sum over all
\* events k of entry [k][i] of the matrix compute_matrix() returns.  Stated
\* on the accepted observation sets that also have one finite time per
\* individual, so that a violation owes nothing to the unchecked indicators.
C1_SumOverEventsIsColumnSum ==
    (ConsistentIndicators /\ last_op = "sum_over_events") =>
        \A i \in DOMAIN hazard_increase :
            last_val[i] = ColumnSum(compute_matrix_of, i)

\* C2: on the index vector the constructor stored, _sum_over_risk_set(arr, .)
\* returns a vector of length n_event whose k-th element is the sum of arr[i]
\* over k <= i <= risk_set_end_index[k].
C2_SumOverRiskSetIsBruteForce ==
    (last_op = "_sum_over_risk_set") =>
        /\ last_raised = ""
        /\ DOMAIN last_val = 0..(n_event - 1)
        /\ \A k \in 0..(n_event - 1) :
              last_val[k] = SumTo(last_arg, k, risk_set_end_index[k])

\* C3: dot(v) is the product of the dense matrix with v, and Tdot(w) the
\* product of its transpose with w.  Stated, as C1, on the accepted
\* observation sets with one finite time per individual.
C3_DotAndTdotAreMatrixProducts ==
    /\ (ConsistentIndicators /\ last_op = "dot") =>
          \A k \in DOMAIN sum_over_risk_set :
              last_val[k] = MatVec(compute_matrix_of, last_arg, k)
    /\ (ConsistentIndicators /\ last_op = "Tdot") =>
          \A i \in DOMAIN hazard_increase :
              last_val[i] = MatTVec(compute_matrix_of, last_arg, i)

\* The three ways the observations can break the constructor's contract,
\* stated over all pairs of individuals and all events
EventTimesNotAscending ==
    \E i, j \in DOMAIN event_time : i < j /\ event_time[i] > event_time[j]

CensoringTimesNotDescending ==
    \E i, j \in DOMAIN censoring_time :
        i < j /\ censoring_time[i] < censoring_time[j]

InNoRiskSet(i) ==
    \A j \in DOMAIN event_time :
        event_time[j] < Inf =>
            ~(censoring_time[i] >= event_time[j] /\ event_time[i] >= event_time[j])

InvalidObservations ==
    \/ EventTimesNotAscending
    \/ CensoringTimesNotDescending
    \/ \E i \in DOMAIN event_time : InNoRiskSet(i)

\* C4: on observations whose event times are not ascending, whose censoring
\* times are not descending, or with an individual in no risk set, the
\* constructor raises and leaves no model: once it has run the state is
\* "raised" with one of its three errors and no field of the model is set.
C4_ConstructionRejectsInvalid ==
    InvalidObservations =>
        /\ ~Constructed
        /\ n_event = 0
        /\ n_appearance_in_risk_set = EmptyArr
        /\ risk_set_end_index = EmptyArr
        /\ cox_pc = "raised" =>
              cox_err \in {"event_time_unsorted", "censoring_time_unsorted",
                           "never_in_risk_set",
                           "inconsistent_censoring_indicators"}

C4_Witness ==
    /\ cox_pc = "raised"
    /\ cox_err = "never_in_risk_set"
    /\ ~EventTimesNotAscending
    /\ ~CensoringTimesNotDescending
    /\ \E i \in DOMAIN event_time : InNoRiskSet(i)

\* C5: the constructor and the permutation helper both raise on observations
\* in which some individual does not have exactly one finite time.
C5_InconsistentIndicatorsRejected ==
    (\E i \in DOMAIN event_time : ~ExactlyOneFinite(i)) =>
        (~Constructed /\ ~permuted)

\* C9: the stored risk_set_end_index[k] is the number of individuals whose
\* censoring time is >= the k-th event time, minus 1 (the convention of
\* count_risk_set_appearance).  Stated, as C1, on the accepted observation
\* sets with one finite time per individual.
C9_EndIndexCountsCensoringAtOrAfter ==
    (ConsistentIndicators /\ Constructed) =>
        \A k \in 0..(n_event - 1) :
            risk_set_end_index[k] =
                Cardinality({i \in DOMAIN censoring_time :
                    censoring_time[i] >= event_time[k]}) - 1

\* C6: for alpha in (0, 1) and lam >= 0, lam = 0 included, rv raises nothing,
\* its acceptance test reads no c or E2 computed for an earlier candidate, and
\* a value it returns comes from a candidate X > 0.
C6_NoErrorInsideDomain ==
    in_domain(lam, alpha2) =>
        /\ rv_pc # "raised"
        /\ ~stale_used
        /\ (rv_pc = "returned") => (X = "pos")

\* C7: for alpha outside (0, 1) or lam < 0, rv raises before it enters either
\* rejection loop: it is never found in a loop and never returns.
C7_FailsFastOutsideDomain ==
    ~in_domain(lam, alpha2) => rv_pc \in {"idle", "raised"}

\* C8: every candidate X is drawn with a newly accepted pair (U, Z): no
\* accepted pair serves more than one candidate.  Stated for the calls whose
\* arguments lie inside the domain.
C8_FreshPairForEachCandidate == in_domain(lam, alpha2) => pair_uses <= 1

\* C10: the values an instance draws depend only on its seed and its own
\* calls: whatever other instances are constructed and whatever
\* simulate_outcome does in between, each draw reads the generator in the
\* state it would have had the instance been alone.  Stated for the calls
\* whose arguments lie inside the domain.
C10_DrawsIndependentOfOthers == in_domain(lam, alpha2) => unperturbed

====
